---------------------------- MODULE Spec2Model ----------------------------
(***************************************************************************)
(* Model of the announcement scheduling engine of                          *)
(* src/app/api/announcements/route.ts (POST, findNextAvailableScheduleSlot,*)
(* reflowSchedulesForSuperAdmin, fetchConflictsForRange,                   *)
(* applyScheduleAdjustments) and of the role helpers of                    *)
(* src/utils/announcementUtils.ts.                                         *)
(*                                                                         *)
(* Times are JavaScript Date values: integers, in milliseconds.            *)
(* The announcements table is a function from row id (1..n, in insertion   *)
(* order) to the row's columns.                                            *)
(***************************************************************************)
EXTENDS Integers, Sequences, FiniteSets, TLC

(***************************************************************************)
(* Bounds of the model.                                                    *)
(***************************************************************************)
\* rows the table may hold in the general specification
MaxItems == 3
\* rows the table may hold in the single-time specification SpecFill
MaxFill == 40
\* concurrent requests of SpecConc
NumProcs == 2
\* rows of a table of SpecQuery
MaxRows == 3
\* rows of the table GET reads in SpecRead
MaxData == 2
\* items of a list handed to the presentation ordering
MaxList == 3

(***************************************************************************)
(* Program constants.                                                      *)
(***************************************************************************)
SLOT_INTERVAL_MINUTES == 5
maxIterations == 180
\* Date.setSeconds(0, 0) clears the seconds and milliseconds of a minute
MsPerMinute == 60000
\* priority_level = 3 is the default of the request body (P3)
DefaultPriorityLevel == 3

SlotMs == SLOT_INTERVAL_MINUTES * MsPerMinute

\* a null / absent scheduled_at
NoTime == 0 - 1
\* an absent priority_level in the request body
Absent == 0 - 100

(***************************************************************************)
(* Inputs the requests are drawn from.                                     *)
(***************************************************************************)
\* 10:00:00.000 of the day, in ms
T0 == 600 * MsPerMinute
\* requested scheduled_at values: 10:00:00.000 and 10:02:30.500
DesiredTimes == {T0, T0 + 2 * MsPerMinute + 30500}
\* the server clock: before every requested time, or after every slot
EarlyNow == T0 - 60 * MsPerMinute
LateNow == T0 + 24 * 60 * MsPerMinute
NowValues == {EarlyNow, LateNow}
\* priority_level of the request body: absent, in range, out of range
RawPriorities == {Absent, 0, 7}
\* the submitters requireAdmin lets through, as (role, is_admin) of the user row
Submitters == {[role |-> "admin", is_admin |-> TRUE],
               [role |-> "super_admin", is_admin |-> TRUE]}
\* status of the request body
BodyStatuses == {"active"}
\* whether the schema stores status 'urgent' (initializeSchema adds it at start)
UrgentStoredValues == {TRUE}

\* the request bodies: every combination with a scheduled_at, and the plain
\* unscheduled announcement of each submitter
ScheduledRequests ==
    [user : Submitters, scheduled_at : DesiredTimes, priority_level : RawPriorities,
     hasPriorityWindow : BOOLEAN, status : BodyStatuses,
     urgentStored : UrgentStoredValues]
UnscheduledRequests ==
    [user : Submitters, scheduled_at : {NoTime}, priority_level : {Absent},
     hasPriorityWindow : {FALSE}, status : BodyStatuses,
     urgentStored : UrgentStoredValues]
Requests == ScheduledRequests \cup UnscheduledRequests

VARIABLES
    store,   \* the announcements table: row id -> columns
    now,     \* the server clock read by the last request (new Date())
    prev,    \* the table before the last request
    last,    \* what the last request computed (its response and its path)
    procs,   \* SpecConc: each in-flight request's position and locals
    view,    \* the read side: the last evaluation of the gate, GET or the ordering
    schema   \* the module-level state of route.ts (lines 399-404) and the
             \* ensure calls in flight

vars == <<store, now, prev, last, procs, view, schema>>

(***************************************************************************)
(* src/utils/announcementUtils.ts                                          *)
(***************************************************************************)
UserRoles == {"student", "student_admin", "admin", "super_admin"}

\* normalizeUserRole: role "" stands for an undefined / null role
normalizeUserRole(role, isAdmin) ==
    IF role = "" THEN (IF isAdmin THEN "admin" ELSE "student")
    ELSE IF role = "user" THEN "student"
    ELSE IF role \in UserRoles THEN role
    ELSE (IF isAdmin THEN "admin" ELSE "student")

getAnnouncementPriority(userRole) ==
    CASE userRole = "student" -> 1
      [] userRole = "student_admin" -> 2
      [] userRole = "admin" -> 3
      [] userRole = "super_admin" -> 4
      [] OTHER -> 1

(***************************************************************************)
(* src/app/api/announcements/route.ts                                      *)
(***************************************************************************)
\* variant: the seconds and milliseconds are kept
Truncate_keepsSeconds(t) == t

\* Date.setSeconds(0, 0)
Truncate(t) == t - (t % MsPerMinute)

\* variant: only the upper end is clamped
ValidPriorityLevel_noFloor(priority_level) ==
    LET given == IF priority_level = Absent THEN DefaultPriorityLevel ELSE priority_level
    IN  IF given < 3 THEN given ELSE 3

\* Math.max(0, Math.min(3, priority_level ?? 3)), with the body's default 3
ValidPriorityLevel(priority_level) ==
    LET given == IF priority_level = Absent THEN DefaultPriorityLevel ELSE priority_level
        capped == IF given < 3 THEN given ELSE 3
    IN  IF capped > 0 THEN capped ELSE 0

\* the WHERE clause of the conflict query
ConflictStatuses == {"scheduled", "under_review", "active"}

\* variant: the query forgets the end of the range
fetchConflictsForRange_noUpperBound(st, start, end) ==
    {id \in DOMAIN st :
        /\ st[id].scheduledAt # NoTime
        /\ st[id].scheduledAt >= start
        /\ st[id].status \in ConflictStatuses}

\* variant: the query forgets the status filter
fetchConflictsForRange_anyStatus(st, start, end) ==
    {id \in DOMAIN st :
        /\ st[id].scheduledAt # NoTime
        /\ st[id].scheduledAt >= start
        /\ st[id].scheduledAt < end}

\* fetchConflictsForRange: the ids of the rows the query selects
fetchConflictsForRange(st, start, end) ==
    {id \in DOMAIN st :
        /\ st[id].scheduledAt # NoTime
        /\ st[id].scheduledAt >= start
        /\ st[id].scheduledAt < end
        /\ st[id].status \in ConflictStatuses}

\* the query has no ORDER BY: its rows come in any order
RowOrders(ids) ==
    {f \in [1..Cardinality(ids) -> ids] : \A i, j \in DOMAIN f : f[i] = f[j] => i = j}

\* lines 270-275: the query of the iteration that looks at minuteStart is empty
SlotFree(st, minuteStart) ==
    LET minuteEnd == minuteStart + SlotMs
        conflicts == fetchConflictsForRange(st, minuteStart, minuteEnd)
    IN  conflicts = {}

\* lines 269-288: the loop, entered with counter i at candidate.  It leaves at
\* the first iteration whose window is free, or throws when the counter
\* reaches maxIterations; candidate advances by one window per iteration.
FindFrom(st, normalizedDesired, candidate, i) ==
    LET last_i == CHOOSE k \in i..maxIterations :
                     /\ k = maxIterations \/ SlotFree(st, candidate + (k - i) * SlotMs)
                     /\ \A j \in i..(k - 1) : ~SlotFree(st, candidate + (j - i) * SlotMs)
        minuteStart == candidate + (last_i - i) * SlotMs
    IN  IF last_i >= maxIterations
        THEN [ok |-> FALSE, scheduledAt |-> NoTime, autoAdjusted |-> FALSE,
              probes |-> last_i]
        ELSE [ok |-> TRUE, scheduledAt |-> minuteStart,
              autoAdjusted |-> minuteStart # normalizedDesired, probes |-> last_i + 1]

\* variant: the flag compares with the requested time as given
findNextAvailableScheduleSlot_flagFromRaw(st, desiredDate) ==
    LET normalizedDesired == Truncate(desiredDate)
        r == FindFrom(st, normalizedDesired, normalizedDesired, 0)
    IN  [r EXCEPT !.autoAdjusted = r.ok /\ r.scheduledAt # desiredDate]

\* variant: the search starts one window before the requested minute
findNextAvailableScheduleSlot_startsEarlier(st, desiredDate) ==
    LET normalizedDesired == Truncate(desiredDate)
    IN  FindFrom(st, normalizedDesired, normalizedDesired - SlotMs, 0)

findNextAvailableScheduleSlot(st, desiredDate) ==
    LET normalizedDesired == Truncate(desiredDate)
    IN  FindFrom(st, normalizedDesired, normalizedDesired, 0)

\* variant: the role tie-break runs ascending
SortsBefore_roleAscending(a, b) ==
    IF a.priorityLevel # b.priorityLevel
    THEN a.priorityLevel - b.priorityLevel < 0
    ELSE a.rolePriority - b.rolePriority < 0

\* variant: the higher priorityLevel number sorts first
SortsBefore_priorityDescending(a, b) ==
    IF a.priorityLevel # b.priorityLevel
    THEN b.priorityLevel - a.priorityLevel < 0
    ELSE b.rolePriority - a.rolePriority < 0

\* the comparator of records.sort: a sorts before b
SortsBefore(a, b) ==
    IF a.priorityLevel # b.priorityLevel
    THEN a.priorityLevel - b.priorityLevel < 0
    ELSE b.rolePriority - a.rolePriority < 0

\* records.sort(...), line 330.  Array.prototype.sort is stable: record k ends
\* up behind every record that sorts before it and behind every earlier record
\* the comparator does not tell apart from it.
SortRecords(records) ==
    LET n == Len(records)
        pos(k) == 1 + Cardinality({j \in 1..n :
                        \/ SortsBefore(records[j], records[k])
                        \/ (~SortsBefore(records[k], records[j]) /\ j < k)})
    IN  [i \in 1..n |-> records[CHOOSE k \in 1..n : pos(k) = i]]

\* variant: the cursor advances by one minute instead of one window
CursorAt_minuteStep(normalizedDesired, i) == normalizedDesired + (i - 1) * MsPerMinute

\* the walk over the sorted records: entry i gets the cursor's i-th window
CursorAt(normalizedDesired, i) == normalizedDesired + (i - 1) * SlotMs

\* variant: every conflicting record is rewritten
NeedsAdjustment_always(record, cursor) == TRUE

\* line 345: the record's stored time is missing or differs from the cursor
NeedsAdjustment(record, cursor) ==
    record.scheduledAt = NoTime \/ record.scheduledAt # cursor

RECURSIVE WalkAdjustments(_, _, _)
WalkAdjustments(sorted, normalizedDesired, i) ==
    IF i > Len(sorted) THEN <<>>
    ELSE LET record == sorted[i]
             cursor == CursorAt(normalizedDesired, i)
             rest == WalkAdjustments(sorted, normalizedDesired, i + 1)
         IN  IF record.id # 0 /\ NeedsAdjustment(record, cursor)
             THEN <<[id |-> record.id, newTime |-> cursor]>> \o rest
             ELSE rest

\* variant: the new announcement's record leads the list
CombinedRecords_newFirst(conflictRecords, newRecord) == <<newRecord>> \o conflictRecords

\* lines 312-328: the conflicts' records, then the new announcement's
CombinedRecords(conflictRecords, newRecord) == conflictRecords \o <<newRecord>>

\* variant: the flag looks at the new announcement's time only
ReflowAutoAdjusted_newTimeOnly(assigned, normalizedDesired, adjustments) ==
    assigned # normalizedDesired

\* lines 355-361
ReflowAutoAdjusted(assigned, normalizedDesired, adjustments) ==
    assigned # normalizedDesired \/ Len(adjustments) > 0

\* reflowSchedulesForSuperAdmin; rows are the conflict query's rows, in its order.
\* The new announcement's record has id 0 (null in the code).
reflowSchedulesForSuperAdmin(st, desiredDate, newAnnouncementPriority, userRole, rows) ==
    LET normalizedDesired == Truncate(desiredDate)
    IN  IF Len(rows) = 0
        THEN [ok |-> TRUE, scheduledAt |-> normalizedDesired,
              \* desiredDate.setSeconds(0, 0) returns the truncated time
              autoAdjusted |-> normalizedDesired # Truncate(desiredDate),
              adjustments |-> <<>>, sorted |-> <<>>]
        ELSE LET rolePriority == getAnnouncementPriority(userRole)
                 records ==
                     CombinedRecords(
                        [i \in 1..Len(rows) |->
                           [id |-> rows[i],
                            priorityLevel |-> st[rows[i]].priorityLevel,
                            rolePriority |-> getAnnouncementPriority(
                                               normalizeUserRole(st[rows[i]].authorRole, FALSE)),
                            scheduledAt |-> st[rows[i]].scheduledAt]],
                        [id |-> 0, priorityLevel |-> newAnnouncementPriority,
                         rolePriority |-> rolePriority,
                         scheduledAt |-> normalizedDesired])
                 sorted == SortRecords(records)
                 adjustments == WalkAdjustments(sorted, normalizedDesired, 1)
                 newIndex == CHOOSE i \in 1..Len(sorted) : sorted[i].id = 0
                 assignedNewAnnouncementTime == CursorAt(normalizedDesired, newIndex)
             IN  [ok |-> TRUE, scheduledAt |-> assignedNewAnnouncementTime,
                  autoAdjusted |-> ReflowAutoAdjusted(assignedNewAnnouncementTime,
                                                      normalizedDesired, adjustments),
                  adjustments |-> adjustments, sorted |-> sorted]

\* variant: the UPDATE moves the row by one window instead of setting its time
WriteAdjustment_shiftsRow(st, adjustment) ==
    [st EXCEPT ![adjustment.id].scheduledAt = @ + SlotMs]

\* lines 388-394: UPDATE announcements SET scheduled_at = newTime WHERE id = id
WriteAdjustment(st, adjustment) ==
    [st EXCEPT ![adjustment.id].scheduledAt = adjustment.newTime]

\* applyScheduleAdjustments: one UPDATE per adjustment, in list order
RECURSIVE applyScheduleAdjustments(_, _)
applyScheduleAdjustments(st, adjustments) ==
    IF adjustments = <<>> THEN st
    ELSE applyScheduleAdjustments(WriteAdjustment(st, Head(adjustments)),
                                  Tail(adjustments))

\* POST, lines 123-127: the status and the row the insert writes.
\* urgentStored: the schema takes status 'urgent' (else the insert falls back to 'active')
FinalStatus(hasPriorityWindow, isScheduled, status, urgentStored) ==
    IF hasPriorityWindow THEN (IF urgentStored THEN "urgent" ELSE "active")
    ELSE IF isScheduled THEN "scheduled"
    ELSE status

NewRow(user, scheduled_at, resolved, validPriorityLevel, finalStatus) ==
    [scheduledAt |-> resolved, status |-> finalStatus,
     priorityLevel |-> validPriorityLevel, authorRole |-> user.role,
     requested |-> scheduled_at]

\* insertAnnouncementWithFallback: the row gets the next id
insertAnnouncement(st, row) ==
    [id \in 1..(Cardinality(DOMAIN st) + 1) |-> IF id \in DOMAIN st THEN st[id] ELSE row]

\* variant: every admin-level role takes the reflow
UsesReflow_anyAdmin(userRole) == userRole \in {"admin", "super_admin"}

\* POST, lines 105-121: which engine resolves the schedule
UsesReflow(userRole) == userRole = "super_admin"

ResolveSchedule(st, userRole, scheduled_at, validPriorityLevel, rows) ==
    IF scheduled_at = NoTime
    THEN [path |-> "none", ok |-> TRUE, scheduledAt |-> NoTime, autoAdjusted |-> FALSE,
          adjustments |-> <<>>, sorted |-> <<>>, rows |-> <<>>, probes |-> 0]
    ELSE IF UsesReflow(userRole)
    THEN LET r == reflowSchedulesForSuperAdmin(st, scheduled_at, validPriorityLevel,
                                               userRole, rows)
         IN  [path |-> "reflow", ok |-> r.ok, scheduledAt |-> r.scheduledAt,
              autoAdjusted |-> r.autoAdjusted, adjustments |-> r.adjustments,
              sorted |-> r.sorted, rows |-> rows, probes |-> 0]
    ELSE LET r == findNextAvailableScheduleSlot(st, scheduled_at)
         IN  [path |-> "finder", ok |-> r.ok, scheduledAt |-> r.scheduledAt,
              autoAdjusted |-> r.autoAdjusted, adjustments |-> <<>>,
              sorted |-> <<>>, rows |-> <<>>, probes |-> r.probes]

\* the rows the reflow's conflict query returns for this request, in any order
ReflowRowOrders(st, userRole, scheduled_at) ==
    IF scheduled_at # NoTime /\ UsesReflow(userRole)
    THEN RowOrders(fetchConflictsForRange(st, Truncate(scheduled_at),
                                          Truncate(scheduled_at) + SlotMs))
    ELSE {<<>>}

\* the outcomes of the adjustment writes: 0 when every UPDATE succeeds, k when
\* the k-th UPDATE throws
WriteOutcomes(adjustments) == 0..Len(adjustments)

\* variant: the loop skips the failing UPDATE and carries on
WrittenAdjustments_skipsFailed(adjustments, failAt) ==
    IF failAt = 0 THEN adjustments
    ELSE SubSeq(adjustments, 1, failAt - 1) \o SubSeq(adjustments, failAt + 1, Len(adjustments))

\* applyScheduleAdjustments, lines 387-395: the UPDATEs that took effect when
\* the failAt-th one throws out of the loop
WrittenAdjustments(adjustments, failAt) ==
    IF failAt = 0 THEN adjustments ELSE SubSeq(adjustments, 1, failAt - 1)

\* POST, lines 194-213: 201 on success; whatever is thrown inside the try
\* block reaches the catch and becomes an error response
ResponseOf(resolved, failAt) ==
    IF resolved /\ failAt = 0 THEN "created" ELSE "error"

\* lines 209-213: what the catch block was handed; the exhausted search throws
\* BadRequestError (line 286), a failing UPDATE throws the driver's error
ThrownOf(resolved, failAt) ==
    IF ~resolved THEN "BadRequestError"
    ELSE IF failAt # 0 THEN "DatabaseError"
    ELSE "none"

\* lines 162-192: the handler gets to the email step with !isScheduled, so
\* that a body with send_email set has its email sent
EmailStep(resolved, failAt, isScheduled) ==
    resolved /\ failAt = 0 /\ ~isScheduled

\* variant: a failed search stores the row unscheduled
StoreAfter_insertsUnresolved(st, res, row, failAt) ==
    IF res.ok
    THEN applyScheduleAdjustments(insertAnnouncement(st, row),
                                  WrittenAdjustments(res.adjustments, failAt))
    ELSE insertAnnouncement(st, row)

\* the table after the request: the insert, then the adjustment writes
StoreAfter(st, res, row, failAt) ==
    IF res.ok
    THEN applyScheduleAdjustments(insertAnnouncement(st, row),
                                  WrittenAdjustments(res.adjustments, failAt))
    ELSE st

\* POST /api/announcements, one whole request
POST(user, scheduled_at, priority_level, hasPriorityWindow, status, urgentStored, clock) ==
    /\ clock >= now
    /\ LET userRole == normalizeUserRole(user.role, user.is_admin)
           validPriorityLevel == ValidPriorityLevel(priority_level)
       IN  \E rows \in ReflowRowOrders(store, userRole, scheduled_at) :
           \E res \in {ResolveSchedule(store, userRole, scheduled_at,
                                       validPriorityLevel, rows)} :
           \E failAt \in WriteOutcomes(res.adjustments) :
             LET isScheduled == res.scheduledAt # NoTime /\ res.scheduledAt > clock
                 finalStatus == FinalStatus(hasPriorityWindow, isScheduled, status,
                                            urgentStored)
                 row == NewRow(user, scheduled_at, res.scheduledAt,
                               validPriorityLevel, finalStatus)
             IN  /\ store' = StoreAfter(store, res, row, failAt)
                 /\ now' = clock
                 /\ prev' = store
                 /\ last' = [res EXCEPT !.rows = rows] @@
                            [userRole |-> userRole, desired |-> scheduled_at,
                             priorityLevel |-> validPriorityLevel,
                             id |-> IF res.ok THEN Cardinality(DOMAIN store) + 1 ELSE 0,
                             rawPriority |-> priority_level,
                             failAt |-> failAt,
                             response |-> ResponseOf(res.ok, failAt),
                             thrown |-> ThrownOf(res.ok, failAt),
                             emailStep |-> EmailStep(res.ok, failAt, isScheduled)]
                 /\ UNCHANGED <<procs, view, schema>>

NoRequest ==
    [path |-> "init", ok |-> FALSE, scheduledAt |-> NoTime, autoAdjusted |-> FALSE,
     adjustments |-> <<>>, sorted |-> <<>>, rows |-> <<>>, probes |-> 0,
     userRole |-> "student", desired |-> NoTime, priorityLevel |-> DefaultPriorityLevel,
     id |-> 0, rawPriority |-> Absent, failAt |-> 0, response |-> "created",
     thrown |-> "none", emailStep |-> FALSE]

\* nothing has been read yet
NoView == [kind |-> "none"]

Procs == 1..NumProcs

\* a handler that has not received its request yet
IdleProc ==
    [pc |-> "idle",
     req |-> [user |-> [role |-> "", is_admin |-> FALSE], scheduled_at |-> NoTime,
              priority_level |-> Absent, hasPriorityWindow |-> FALSE,
              status |-> "active", urgentStored |-> TRUE],
     clock |-> EarlyNow, candidate |-> NoTime, i |-> 0, resolved |-> NoTime,
     autoAdjusted |-> FALSE, adjustments |-> <<>>, id |-> 0,
     prioritySupported |-> FALSE, targetYearsSupported |-> FALSE, attempts |-> <<>>]

\* the callers of the ensure functions: 0 is the initialization of line 411,
\* the others are the POST handlers (lines 92-93)
Callers == 0..NumProcs

\* the columns the ensure functions look for
Columns == {"priority_until", "target_years"}

\* lines 399-404 at module load; no ensure call is running
InitialSchema ==
    [priorityColumnState |-> "unknown",
     targetYearsColumnState |-> "unknown",
     initializationPromise |-> "null",
     calls |-> [c \in Callers |-> [col \in Columns |-> "none"]],
     statements |-> [col \in Columns |-> 0]]

Init ==
    /\ store = <<>>
    /\ now = EarlyNow
    /\ prev = <<>>
    /\ last = NoRequest
    /\ procs = [p \in Procs |-> IdleProc]
    /\ view = NoView
    /\ schema = InitialSchema

Next ==
    \E r \in Requests, clock \in NowValues :
        /\ Cardinality(DOMAIN store) < MaxItems
        /\ POST(r.user, r.scheduled_at, r.priority_level, r.hasPriorityWindow, r.status,
                r.urgentStored, clock)

Spec == Init /\ [][Next]_vars


(***************************************************************************)
(* SpecFill: non-privileged submitters keep requesting one and the same    *)
(* time, so the windows after it fill up one by one.                       *)
(***************************************************************************)
FillRequests ==
    {r \in ScheduledRequests :
        r.user.role = "admin" /\ ~r.hasPriorityWindow /\ r.priority_level = Absent}

FillNext ==
    \E r \in FillRequests, clock \in NowValues :
        /\ Cardinality(DOMAIN store) < MaxFill
        /\ store # <<>> => r.scheduled_at = store[1].requested
        /\ POST(r.user, r.scheduled_at, r.priority_level, r.hasPriorityWindow, r.status,
                r.urgentStored, clock)

SpecFill == Init /\ [][FillNext]_vars

(***************************************************************************)
(* SpecPriority: requests for one and the same time with every kind of     *)
(* priority_level: absent, below 0, in range, above 3.                     *)
(***************************************************************************)
PriorityValues == {Absent, 0 - 2, 0, 2, 3, 7}

PriorityRequests ==
    [user : Submitters, scheduled_at : {T0}, priority_level : PriorityValues,
     hasPriorityWindow : {FALSE}, status : BodyStatuses,
     urgentStored : UrgentStoredValues]

PriorityNext ==
    \E r \in PriorityRequests :
        /\ Cardinality(DOMAIN store) < MaxItems
        /\ POST(r.user, r.scheduled_at, r.priority_level, r.hasPriorityWindow, r.status,
                r.urgentStored, EarlyNow)

SpecPriority == Init /\ [][PriorityNext]_vars

(***************************************************************************)
(* SpecExhaust: one non-privileged request for 10:00 after another, until  *)
(* every window Slot Finder may probe is taken and the search gives up.    *)
(***************************************************************************)
\* requests handled: one more than the windows the search covers
MaxExhaust == 181

ExhaustRequests == {r \in FillRequests : r.scheduled_at = T0}

ExhaustNext ==
    \E r \in ExhaustRequests :
        /\ Cardinality(DOMAIN store) < MaxExhaust
        /\ POST(r.user, r.scheduled_at, r.priority_level, r.hasPriorityWindow, r.status,
                r.urgentStored, EarlyNow)

SpecExhaust == Init /\ [][ExhaustNext]_vars

(***************************************************************************)
(* SpecConc: NumProcs POST handlers run concurrently.  A handler yields at *)
(* each await: every conflict query, the insert, every adjustment write.   *)
(***************************************************************************)
ProcRole(p) == normalizeUserRole(procs[p].req.user.role, procs[p].req.user.is_admin)

\* lines 59-110: the request arrives, the clock is read (line 94)
Receive(p, r, clock) ==
    /\ procs[p].pc = "idle"
    /\ clock >= now
    /\ now' = clock
    /\ procs' = [procs EXCEPT ![p] =
          [@ EXCEPT !.req = r,
                    !.clock = clock,
                    !.candidate = IF r.scheduled_at = NoTime THEN NoTime
                                  ELSE Truncate(r.scheduled_at),
                    !.pc = IF r.scheduled_at = NoTime THEN "insert"
                           ELSE IF UsesReflow(normalizeUserRole(r.user.role, r.user.is_admin))
                                THEN "reflow" ELSE "probe"]]
    /\ UNCHANGED <<store, prev, last, view, schema>>

\* one iteration of the loop of findNextAvailableScheduleSlot (lines 269-284)
Probe(p) ==
    /\ procs[p].pc = "probe"
    /\ LET minuteStart == procs[p].candidate
           minuteEnd == minuteStart + SlotMs
           conflicts == fetchConflictsForRange(store, minuteStart, minuteEnd)
       IN  procs' = [procs EXCEPT ![p] =
              IF conflicts = {}
              THEN [@ EXCEPT !.resolved = minuteStart,
                             !.autoAdjusted = minuteStart # Truncate(procs[p].req.scheduled_at),
                             !.pc = "insert"]
              ELSE [@ EXCEPT !.candidate = minuteEnd,
                             !.i = @ + 1,
                             !.pc = IF procs[p].i + 1 >= maxIterations
                                    THEN "failed" ELSE "probe"]]
    /\ UNCHANGED <<store, now, prev, last, view, schema>>

\* reflowSchedulesForSuperAdmin: its one query, then the computation
Reflow(p) ==
    /\ procs[p].pc = "reflow"
    /\ \E rows \in ReflowRowOrders(store, ProcRole(p), procs[p].req.scheduled_at) :
          \E r \in {reflowSchedulesForSuperAdmin(store, procs[p].req.scheduled_at,
                       ValidPriorityLevel(procs[p].req.priority_level), ProcRole(p), rows)} :
              procs' = [procs EXCEPT ![p] =
                 [@ EXCEPT !.resolved = r.scheduledAt,
                           !.autoAdjusted = r.autoAdjusted,
                           !.adjustments = r.adjustments,
                           !.pc = "insert"]]
    /\ UNCHANGED <<store, now, prev, last, view, schema>>

\* lines 123-156: the row is built and inserted
Insert(p) ==
    /\ procs[p].pc = "insert"
    /\ LET me == procs[p]
           isScheduled == me.resolved # NoTime /\ me.resolved > me.clock
           finalStatus == FinalStatus(me.req.hasPriorityWindow, isScheduled,
                                      me.req.status, me.req.urgentStored)
           row == NewRow(me.req.user, me.req.scheduled_at, me.resolved,
                         ValidPriorityLevel(me.req.priority_level), finalStatus)
       IN  /\ store' = insertAnnouncement(store, row)
           /\ procs' = [procs EXCEPT ![p] =
                 [@ EXCEPT !.id = Cardinality(DOMAIN store) + 1,
                           !.pc = IF me.adjustments = <<>> THEN "done" ELSE "adjust"]]
    /\ UNCHANGED <<now, prev, last, view, schema>>

\* one UPDATE of applyScheduleAdjustments (lines 387-395)
Adjust(p) ==
    /\ procs[p].pc = "adjust"
    /\ store' = applyScheduleAdjustments(store, <<Head(procs[p].adjustments)>>)
    /\ procs' = [procs EXCEPT ![p] =
          [@ EXCEPT !.adjustments = Tail(@),
                    !.pc = IF Tail(procs[p].adjustments) = <<>> THEN "done" ELSE "adjust"]]
    /\ UNCHANGED <<now, prev, last, view, schema>>

\* the UPDATE throws: the handler leaves through the catch (lines 209-213)
AdjustFails(p) ==
    /\ procs[p].pc = "adjust"
    /\ procs' = [procs EXCEPT ![p] = [@ EXCEPT !.pc = "error"]]
    /\ UNCHANGED <<store, now, prev, last, view, schema>>

ConcNext ==
    \E p \in Procs :
        \/ \E r \in Requests, clock \in NowValues : Receive(p, r, clock)
        \/ Probe(p)
        \/ Reflow(p)
        \/ Insert(p)
        \/ Adjust(p)
        \/ AdjustFails(p)

SpecConc == Init /\ [][ConcNext]_vars

(***************************************************************************)
(* The POST handler step by step, from the schema initialization to the    *)
(* response: initializeSchema, ensurePriorityColumn,                       *)
(* ensureTargetYearsColumn, the schedule resolution,                       *)
(* insertAnnouncementWithFallback and applyScheduleAdjustments.  A handler *)
(* yields at every await.                                                  *)
(***************************************************************************)
\* priorityColumnState / targetYearsColumnState
ColumnState(sch, col) ==
    IF col = "priority_until" THEN sch.priorityColumnState ELSE sch.targetYearsColumnState

SetColumnState(sch, col, state) ==
    IF col = "priority_until" THEN [sch EXCEPT !.priorityColumnState = state]
    ELSE [sch EXCEPT !.targetYearsColumnState = state]

\* variant: the ensure functions probe the schema on every call
EnsureEntry_noCache(state) == "check"

\* lines 424-425 and 506-507: a resolved flag is answered at once
EnsureEntry(state) ==
    IF state = "supported" THEN "true"
    ELSE IF state = "unsupported" THEN "false"
    ELSE "check"

\* variant: the initialization promise never settles
PromiseAfter_neverSettles(calls) == "pending"

\* lines 411-418: Promise.all settles once every ensure call has returned
\* (ensureUrgentStatusEnum touches neither flag and always returns)
PromiseAfter(calls) ==
    IF \A col \in Columns : calls[col] = "done" THEN "resolved" ELSE "pending"

\* lines 95-121: where the handler goes once the columns are known
ScheduleEntry(r) ==
    IF r.scheduled_at = NoTime THEN "insert"
    ELSE IF UsesReflow(normalizeUserRole(r.user.role, r.user.is_admin)) THEN "reflow"
    ELSE "probe"

\* the handler takes the value its ensure call returned (lines 92-93)
AfterEnsure(me, col, supported) ==
    IF col = "priority_until"
    THEN [me EXCEPT !.prioritySupported = supported, !.pc = "ensureTargetYears"]
    ELSE [me EXCEPT !.targetYearsSupported = supported, !.pc = ScheduleEntry(me.req)]

\* an ensure call of caller c sets its flag and returns
ReturnSchema(sch, c, col, state) ==
    LET flagged == SetColumnState(sch, col, state)
        calls == [flagged.calls EXCEPT ![c][col] = "done"]
    IN  [flagged EXCEPT !.calls = calls,
                        !.initializationPromise =
                            IF c = 0 THEN PromiseAfter(calls[0]) ELSE @]

ReturnProcs(c, col, state) ==
    IF c \in Procs
    THEN [procs EXCEPT ![c] = AfterEnsure(procs[c], col, state = "supported")]
    ELSE procs

\* lines 59-66: the request arrives
Arrive(p, r, clock) ==
    /\ procs[p].pc = "idle"
    /\ clock >= now
    /\ now' = clock
    /\ prev' = store
    /\ procs' = [procs EXCEPT ![p] =
          [@ EXCEPT !.req = r,
                    !.clock = clock,
                    !.candidate = IF r.scheduled_at = NoTime THEN NoTime
                                  ELSE Truncate(r.scheduled_at),
                    !.pc = "init"]]
    /\ UNCHANGED <<store, last, view, schema>>

\* initializeSchema, lines 406-421: the first caller starts the ensure calls,
\* every caller awaits the one promise
InitializeSchema(p) ==
    /\ procs[p].pc = "init"
    /\ schema' =
          IF schema.initializationPromise = "null"
          THEN LET started == [col \in Columns |->
                                  IF EnsureEntry(ColumnState(schema, col)) = "check"
                                  THEN "check" ELSE "done"]
               IN  [schema EXCEPT !.calls[0] = started,
                                  !.initializationPromise = PromiseAfter(started)]
          ELSE schema
    /\ procs' = [procs EXCEPT ![p] = [@ EXCEPT !.pc = "awaitInit"]]
    /\ UNCHANGED <<store, now, prev, last, view>>

\* line 67: the awaited promise has settled
InitResolved(p) ==
    /\ procs[p].pc = "awaitInit"
    /\ schema.initializationPromise = "resolved"
    /\ procs' = [procs EXCEPT ![p] = [@ EXCEPT !.pc = "ensure"]]
    /\ UNCHANGED <<store, now, prev, last, view, schema>>

\* line 92: ensurePriorityColumn, up to its first await
EnsurePriority(p) ==
    /\ procs[p].pc = "ensure"
    /\ LET entry == EnsureEntry(schema.priorityColumnState)
       IN  IF entry = "check"
           THEN /\ schema' = [schema EXCEPT !.calls[p]["priority_until"] = "check"]
                /\ procs' = [procs EXCEPT ![p] = [@ EXCEPT !.pc = "awaitEnsure"]]
           ELSE /\ schema' = schema
                /\ procs' = [procs EXCEPT ![p] =
                                AfterEnsure(procs[p], "priority_until", entry = "true")]
    /\ UNCHANGED <<store, now, prev, last, view>>

\* line 93: ensureTargetYearsColumn, up to its first await
EnsureTargetYears(p) ==
    /\ procs[p].pc = "ensureTargetYears"
    /\ LET entry == EnsureEntry(schema.targetYearsColumnState)
       IN  IF entry = "check"
           THEN /\ schema' = [schema EXCEPT !.calls[p]["target_years"] = "check"]
                /\ procs' = [procs EXCEPT ![p] = [@ EXCEPT !.pc = "awaitEnsure"]]
           ELSE /\ schema' = schema
                /\ procs' = [procs EXCEPT ![p] =
                                AfterEnsure(procs[p], "target_years", entry = "true")]
    /\ UNCHANGED <<store, now, prev, last, view>>

\* lines 429-438 / 510-519: SELECT column_name FROM information_schema.columns
EnsureCheck(c, col) ==
    /\ schema.calls[c][col] = "check"
    /\ \E result \in {"rows", "empty", "throws"} :
          LET counted == [schema EXCEPT !.statements[col] = @ + 1]
          IN  IF result = "rows"
              THEN /\ schema' = ReturnSchema(counted, c, col, "supported")
                   /\ procs' = ReturnProcs(c, col, "supported")
              ELSE IF result = "empty"
              THEN /\ schema' = [counted EXCEPT !.calls[c][col] = "alter"]
                   /\ procs' = procs
              ELSE /\ schema' = ReturnSchema(counted, c, col, "unsupported")
                   /\ procs' = ReturnProcs(c, col, "unsupported")
    /\ UNCHANGED <<store, now, prev, last, view>>

\* lines 441 / 521: ALTER TABLE announcements ADD COLUMN IF NOT EXISTS
EnsureAlter(c, col) ==
    /\ schema.calls[c][col] = "alter"
    /\ \E result \in {"ok", "throws"} :
          LET counted == [schema EXCEPT !.statements[col] = @ + 1]
          IN  IF result = "ok"
              THEN /\ schema' = [counted EXCEPT !.calls[c][col] = "verify"]
                   /\ procs' = procs
              ELSE /\ schema' = ReturnSchema(counted, c, col, "unsupported")
                   /\ procs' = ReturnProcs(c, col, "unsupported")
    /\ UNCHANGED <<store, now, prev, last, view>>

\* lines 444-462 / 523-540: the SELECT again, then the flag is set
EnsureVerify(c, col) ==
    /\ schema.calls[c][col] = "verify"
    /\ \E result \in {"rows", "empty", "throws"} :
          LET counted == [schema EXCEPT !.statements[col] = @ + 1]
              state == IF result = "rows" THEN "supported" ELSE "unsupported"
          IN  /\ schema' = ReturnSchema(counted, c, col, state)
              /\ procs' = ReturnProcs(c, col, state)
    /\ UNCHANGED <<store, now, prev, last, view>>

\* An error message, as the set of phrases the two classifiers look for in it
\* (in lower case, as after toLowerCase).
NoError == {}
MissingPriorityMessage == {"column", "priority_until", "does not exist"}
MissingColumnMessage == {"column", "does not exist"}
InvalidEnumMessage == {"invalid input value for enum"}
OtherMessage == {"connection terminated"}
ErrorMessages ==
    {MissingPriorityMessage, MissingColumnMessage, InvalidEnumMessage, OtherMessage}

\* what an INSERT ... RETURNING may do: persist the row and return it, or
\* throw without persisting anything
InsertOutcomes == {NoError} \cup ErrorMessages

isMissingPriorityColumnError(message) ==
    \/ "priority_until" \in message
    \/ "priority until" \in message
    \/ ("column" \in message /\ "does not exist" \in message)

isInvalidEnumError(message) ==
    \/ "invalid input value for enum" \in message
    \/ "invalid enum value" \in message

\* lines 123-126: values.status
ValuesStatus(me) ==
    FinalStatus(me.req.hasPriorityWindow,
                me.resolved # NoTime /\ me.resolved > me.clock,
                me.req.status, TRUE)

\* line 579
InsertStatus(me) == IF ValuesStatus(me) = "urgent" THEN "active" ELSE ValuesStatus(me)

\* variant: the adjustment writes run although the insert threw
InsertThrows_stillAdjusts(adjustments) ==
    IF adjustments = <<>> THEN "error" ELSE "adjust"

\* a throw out of insertAnnouncementWithFallback leaves POST at line 153 for
\* the catch block (lines 209-213): lines 158-160 are skipped
InsertThrows(adjustments) == "error"

\* variant: every error of the first insert falls through to the manual insert
OrmErrorNext_alwaysManual(me, error) == "manual"

\* lines 554-568: the catch block of the first insert
OrmErrorNext(me, error) ==
    IF isMissingPriorityColumnError(error) THEN "manual"
    ELSE IF isInvalidEnumError(error) /\ ValuesStatus(me) = "urgent" THEN "ormFallback"
    ELSE InsertThrows(me.adjustments)

\* lines 598-616: the catch block of the manual insert
ManualErrorNext(me, error) ==
    IF isInvalidEnumError(error) /\ InsertStatus(me) # "active" THEN "manualRetry"
    ELSE InsertThrows(me.adjustments)

\* an insert went through: the row is stored and returned to POST (line 153)
Persists(p, step, status) ==
    LET me == procs[p]
        row == NewRow(me.req.user, me.req.scheduled_at, me.resolved,
                      ValidPriorityLevel(me.req.priority_level), status)
    IN  /\ store' = insertAnnouncement(store, row)
        /\ procs' = [procs EXCEPT ![p] =
              [@ EXCEPT !.id = Cardinality(DOMAIN store) + 1,
                        !.attempts = Append(@, [step |-> step, error |-> NoError]),
                        !.pc = IF me.adjustments = <<>> THEN "done" ELSE "adjust"]]

\* an insert threw: nothing is stored
Throws(p, step, error, next) ==
    /\ store' = store
    /\ procs' = [procs EXCEPT ![p] =
          [@ EXCEPT !.attempts = Append(@, [step |-> step, error |-> error]),
                    !.pc = next]]

\* lines 550-568: the insert through the query builder, with every column
InsertOrm(p) ==
    /\ procs[p].pc = "insert"
    /\ procs[p].prioritySupported
    /\ \E outcome \in InsertOutcomes :
          IF outcome = NoError
          THEN /\ Persists(p, "orm", ValuesStatus(procs[p]))
               /\ schema' = schema
          ELSE /\ Throws(p, "orm", outcome, OrmErrorNext(procs[p], outcome))
               /\ schema' = IF isMissingPriorityColumnError(outcome)
                            THEN [schema EXCEPT !.priorityColumnState = "unsupported"]
                            ELSE schema
    /\ UNCHANGED <<now, prev, last, view>>

\* lines 559-564: the same insert with status 'active'; a throw leaves the
\* function
InsertOrmFallback(p) ==
    /\ procs[p].pc = "ormFallback"
    /\ \E outcome \in InsertOutcomes :
          IF outcome = NoError
          THEN Persists(p, "ormFallback", "active")
          ELSE Throws(p, "ormFallback", outcome, InsertThrows(procs[p].adjustments))
    /\ UNCHANGED <<now, prev, last, view, schema>>

\* lines 571-598: the manual insert without the priority_until column
InsertManual(p) ==
    /\ \/ procs[p].pc = "insert" /\ ~procs[p].prioritySupported
       \/ procs[p].pc = "manual"
    /\ \E outcome \in InsertOutcomes :
          IF outcome = NoError
          THEN Persists(p, "manual", InsertStatus(procs[p]))
          ELSE Throws(p, "manual", outcome, ManualErrorNext(procs[p], outcome))
    /\ UNCHANGED <<now, prev, last, view, schema>>

\* lines 599-615: the manual insert again, with status 'active'
InsertManualRetry(p) ==
    /\ procs[p].pc = "manualRetry"
    /\ \E outcome \in InsertOutcomes :
          IF outcome = NoError
          THEN Persists(p, "manualRetry", "active")
          ELSE Throws(p, "manualRetry", outcome, InsertThrows(procs[p].adjustments))
    /\ UNCHANGED <<now, prev, last, view, schema>>

\* lines 194-213: the response is sent; the handler is free for the next request
Respond(p) ==
    /\ procs[p].pc \in {"done", "error", "failed"}
    /\ procs' = [procs EXCEPT ![p] = IdleProc]
    /\ UNCHANGED <<store, now, prev, last, view, schema>>

\* the steps of handler p
HandlerStep(p) ==
    \/ InitializeSchema(p)
    \/ InitResolved(p)
    \/ EnsurePriority(p)
    \/ EnsureTargetYears(p)
    \/ Probe(p)
    \/ Reflow(p)
    \/ InsertOrm(p)
    \/ InsertOrmFallback(p)
    \/ InsertManual(p)
    \/ InsertManualRetry(p)
    \/ Adjust(p)
    \/ AdjustFails(p)

\* the steps of the ensure calls in flight
EnsureStep ==
    \E c \in Callers, col \in Columns :
        \/ EnsureCheck(c, col)
        \/ EnsureAlter(c, col)
        \/ EnsureVerify(c, col)

(***************************************************************************)
(* SpecSubmit: requests for 10:00 handled one after another, step by step. *)
(***************************************************************************)
\* the request bodies: a priority_level is sent by the super_admin, whose
\* reflow sorts by it, and a priority window by the admin
SubmitRequests ==
    {r \in [user : Submitters, scheduled_at : {T0}, priority_level : {Absent, 0},
            hasPriorityWindow : BOOLEAN, status : BodyStatuses,
            urgentStored : UrgentStoredValues] :
        /\ r.priority_level # Absent => r.user.role = "super_admin"
        /\ r.hasPriorityWindow => r.user.role = "admin"}

\* the handler that serves the requests of SpecSubmit and SpecLive
Worker == CHOOSE p \in Procs : \A q \in Procs : p <= q

SubmitNext ==
    \/ \E r \in SubmitRequests, clock \in NowValues :
          /\ Cardinality(DOMAIN store) < MaxItems
          /\ Arrive(Worker, r, clock)
    \/ \E p \in Procs : HandlerStep(p)
    \/ EnsureStep
    \/ \E p \in Procs : Respond(p)

SpecSubmit == Init /\ [][SubmitNext]_vars

(***************************************************************************)
(* SpecLive: requests handled one after another, and every call a handler  *)
(* awaits returns: a handler that can take a step takes one, and so does   *)
(* an ensure call in flight.                                               *)
(***************************************************************************)
\* rows the table may hold in SpecLive
MaxLive == 2

LiveRequests == {r \in SubmitRequests : r.priority_level = Absent}

LiveNext ==
    \/ \E r \in LiveRequests :
          /\ Cardinality(DOMAIN store) < MaxLive
          /\ Arrive(Worker, r, EarlyNow)
    \/ \E p \in Procs : HandlerStep(p)
    \/ EnsureStep
    \/ \E p \in Procs : Respond(p)

SpecLive ==
    /\ Init
    /\ [][LiveNext]_vars
    /\ \A p \in Procs : WF_vars(HandlerStep(p))
    /\ WF_vars(EnsureStep)

(***************************************************************************)
(* SpecSchema: unscheduled submissions handled concurrently, from a cold    *)
(* start of the module.  The handlers interleave at every await of the     *)
(* schema initialization, of the ensure calls and of the inserts; with no  *)
(* scheduled_at neither the search nor the reflow runs (lines 110-121),    *)
(* and the status is 'active', which no insert retries.                    *)
(***************************************************************************)
\* the steps of handler p when the request has no scheduled_at
SchemaStep(p) ==
    \/ InitializeSchema(p)
    \/ InitResolved(p)
    \/ EnsurePriority(p)
    \/ EnsureTargetYears(p)
    \/ InsertOrm(p)
    \/ InsertManual(p)

\* the plain unscheduled announcement of an admin
SchemaRequests == {r \in UnscheduledRequests : r.user.role = "admin"}

SchemaNext ==
    \/ \E p \in Procs, r \in SchemaRequests :
          /\ Cardinality(DOMAIN store) < MaxLive
          /\ Arrive(p, r, EarlyNow)
    \/ \E p \in Procs : SchemaStep(p)
    \/ EnsureStep
    \/ \E p \in Procs : Respond(p)

SpecSchema == Init /\ [][SchemaNext]_vars

(***************************************************************************)
(* Vocabulary of the properties.                                           *)
(***************************************************************************)
\* the minute a time lies in
FloorToMinute(t) == (t \div MsPerMinute) * MsPerMinute

\* row id of table st takes part in conflict detection
Occupies(st, id) ==
    /\ st[id].scheduledAt # NoTime
    /\ st[id].status \in {"scheduled", "under_review", "active"}

\* time t lies in the window [start, start + 5 min)
InWindow(t, start) == start <= t /\ t < start + SLOT_INTERVAL_MINUTES * MsPerMinute

\* some occupying row of st is scheduled inside the window starting at start
WindowTaken(st, start) ==
    \E id \in DOMAIN st : Occupies(st, id) /\ InWindow(st[id].scheduledAt, start)

\* the last request went through Slot Finder and got a slot
FinderAssigned == last.path = "finder" /\ last.ok

\* the last request went through the reflow, its window had conflicts and
\* every write went through
ReflowWithConflicts ==
    last.path = "reflow" /\ last.ok /\ Len(last.rows) >= 1 /\ last.response = "created"

\* the entries of the last reflow's combined list, as row ids of the table
ReflowEntries == {last.rows[i] : i \in 1..Len(last.rows)} \cup {last.id}

\* C1: after any sequence of submissions, no occupying row's scheduled time
\* lies inside another occupying row's window [t, t + 5 min)
C1_NoSharedWindow ==
    \A a, b \in DOMAIN store :
        (a # b /\ Occupies(store, a) /\ Occupies(store, b))
            => ~InWindow(store[b].scheduledAt, store[a].scheduledAt)

\* C2: when concurrent submissions have all completed, two of them that asked
\* for the same desired time are never both persisted, occupying, at that time
C2_NoDoubleBooking ==
    \A p, q \in Procs :
        (/\ p # q
         /\ procs[p].pc = "done" /\ procs[q].pc = "done"
         /\ procs[p].req.scheduled_at # NoTime /\ procs[q].req.scheduled_at # NoTime
         /\ FloorToMinute(procs[p].req.scheduled_at) = FloorToMinute(procs[q].req.scheduled_at)
         /\ Occupies(store, procs[p].id) /\ Occupies(store, procs[q].id))
            => ~(/\ store[procs[p].id].scheduledAt = FloorToMinute(procs[p].req.scheduled_at)
                 /\ store[procs[q].id].scheduledAt = FloorToMinute(procs[q].req.scheduled_at))

\* C3: when the table holds only the rows of earlier non-privileged
\* submissions for the same desiredTime d, the next such submission (the
\* k-th, k rows before it) is assigned truncate(d) + k * 5 min
C3_SequentialSameTimeSpaced ==
    (/\ FinderAssigned
     /\ \A id \in DOMAIN prev :
            /\ prev[id].requested = last.desired
            /\ prev[id].authorRole # "super_admin")
        => last.scheduledAt = FloorToMinute(last.desired)
                              + Cardinality(DOMAIN prev) * SLOT_INTERVAL_MINUTES * MsPerMinute

\* C4: Slot Finder assigns truncate(desiredTime) + k * 5 min for some k >= 0,
\* and each of the k windows before it held a conflicting row
C4_FinderNeverEarlier ==
    FinderAssigned =>
        \E k \in 0..(maxIterations - 1) :
            /\ last.scheduledAt = FloorToMinute(last.desired)
                                  + k * SLOT_INTERVAL_MINUTES * MsPerMinute
            /\ \A j \in 0..(k - 1) :
                   WindowTaken(prev, FloorToMinute(last.desired)
                                     + j * SLOT_INTERVAL_MINUTES * MsPerMinute)

C4_Witness ==
    /\ FinderAssigned
    /\ last.scheduledAt >= FloorToMinute(last.desired) + 2 * SLOT_INTERVAL_MINUTES * MsPerMinute
    /\ last.desired < now

\* C5: a submission by a role other than super_admin takes the Slot Finder
\* path, produces no adjustment and leaves every stored row as it was: the
\* only change is the inserted row; the reflow runs for super_admin only
C5_NonPrivilegedFrame ==
    /\ (last.path = "reflow" => last.userRole = "super_admin")
    /\ (last.path \in {"finder", "none"} /\ last.userRole # "super_admin") =>
          /\ last.adjustments = <<>>
          /\ \A id \in DOMAIN prev : id \in DOMAIN store /\ store[id] = prev[id]
          /\ DOMAIN store = DOMAIN prev \cup (IF last.ok THEN {last.id} ELSE {})
    /\ (last.desired # NoTime /\ last.userRole # "super_admin" /\ last.path # "init")
          => last.path = "finder"

C5_Witness ==
    /\ FinderAssigned
    /\ last.userRole = "admin"
    /\ WindowTaken(prev, FloorToMinute(last.desired))
    /\ Cardinality(DOMAIN prev) >= 2

\* C6: with no conflicting row in [truncate(d), truncate(d) + 5 min), Slot
\* Finder returns truncate(d), seconds and milliseconds zero, autoAdjusted false
C6_FinderZeroConflicts ==
    (FinderAssigned /\ ~WindowTaken(prev, FloorToMinute(last.desired))) =>
        /\ last.scheduledAt = FloorToMinute(last.desired)
        /\ last.scheduledAt % MsPerMinute = 0
        /\ last.autoAdjusted = FALSE

C6_Witness ==
    /\ FinderAssigned
    /\ ~WindowTaken(prev, FloorToMinute(last.desired))
    /\ last.desired % MsPerMinute # 0
    /\ prev # <<>>

\* the probe bound the search is documented with: 3 hours of 5-minute windows
DocumentedProbes == (3 * 60) \div SLOT_INTERVAL_MINUTES

\* C7: Slot Finder probes at most 36 windows: it never returns a time at or
\* beyond truncate(d) + 36 * 5 min, and fails once 36 windows are all taken
C7_AtMost36Probes ==
    last.path = "finder" =>
        /\ last.probes <= DocumentedProbes
        /\ last.ok => last.scheduledAt < FloorToMinute(last.desired)
                           + DocumentedProbes * SLOT_INTERVAL_MINUTES * MsPerMinute
        /\ (\A j \in 0..(DocumentedProbes - 1) :
                WindowTaken(prev, FloorToMinute(last.desired)
                                  + j * SLOT_INTERVAL_MINUTES * MsPerMinute))
              => ~last.ok

\* C8: a non-privileged submission whose truncated desiredTime falls inside
\* the window [t, t + 5 min) of an occupying row is not assigned a time inside
\* that window; with that row alone in the table it gets t + 5 min, autoAdjusted
C8_NotInsideExistingWindow ==
    FinderAssigned =>
        \A id \in DOMAIN prev :
            (Occupies(prev, id) /\ InWindow(FloorToMinute(last.desired), prev[id].scheduledAt))
                => /\ ~InWindow(last.scheduledAt, prev[id].scheduledAt)
                   /\ (DOMAIN prev = {id} =>
                          /\ last.scheduledAt = prev[id].scheduledAt
                                                + SLOT_INTERVAL_MINUTES * MsPerMinute
                          /\ last.autoAdjusted)

\* C9: after a reflow with n >= 1 conflicts, the n + 1 entries of the combined
\* list hold exactly the windows truncate(d) + i * 5 min, i = 0..n, one each
C9_ReflowWindowsContiguous ==
    ReflowWithConflicts =>
        /\ Cardinality(ReflowEntries) = Len(last.rows) + 1
        /\ \A i \in 0..Len(last.rows) :
               Cardinality({id \in ReflowEntries :
                               store[id].scheduledAt = FloorToMinute(last.desired)
                                   + i * SLOT_INTERVAL_MINUTES * MsPerMinute}) = 1

C9_Witness ==
    /\ ReflowWithConflicts
    /\ Len(last.rows) = 2
    /\ last.desired % MsPerMinute # 0
    /\ Len(last.adjustments) >= 1

\* C10: in a reflow, an entry with a lower priorityLevel number, or the same
\* priorityLevel and a higher submitter role rank, gets a strictly earlier window
C10_ReflowOrderPreserved ==
    ReflowWithConflicts =>
        \A x, y \in ReflowEntries :
            LET rank(id) == getAnnouncementPriority(normalizeUserRole(store[id].authorRole, FALSE))
            IN  (\/ store[x].priorityLevel < store[y].priorityLevel
                 \/ /\ store[x].priorityLevel = store[y].priorityLevel
                    /\ rank(x) > rank(y))
                    => store[x].scheduledAt < store[y].scheduledAt

C10_Witness ==
    /\ ReflowWithConflicts
    /\ Len(last.rows) = 2
    /\ \E x, y \in ReflowEntries :
          /\ store[x].priorityLevel = store[y].priorityLevel
          /\ store[x].authorRole = "super_admin" /\ store[y].authorRole = "admin"
    /\ \E x \in ReflowEntries : store[x].priorityLevel < store[last.id].priorityLevel

\* the new announcement of the last reflow is strictly more urgent (lower
\* priorityLevel) than every row its conflict query returned
NewIsMostUrgent ==
    \A i \in 1..Len(last.rows) : last.priorityLevel < prev[last.rows[i]].priorityLevel

\* C11: when a super_admin submission is strictly more urgent than every
\* conflicting row of its window, it gets the truncated desired time, every
\* conflicting row ends in a later window and autoAdjusted is true; with one
\* conflicting row stored at the desired time there is exactly one adjustment,
\* moving that row to the desired time + 5 minutes
C11_MostUrgentTakesDesiredWindow ==
    (ReflowWithConflicts /\ NewIsMostUrgent) =>
        /\ last.scheduledAt = FloorToMinute(last.desired)
        /\ store[last.id].scheduledAt = FloorToMinute(last.desired)
        /\ \A i \in 1..Len(last.rows) :
              store[last.rows[i]].scheduledAt
                  >= FloorToMinute(last.desired) + SLOT_INTERVAL_MINUTES * MsPerMinute
        /\ last.autoAdjusted
        /\ (Len(last.rows) = 1 /\ prev[last.rows[1]].scheduledAt = last.desired) =>
              last.adjustments =
                  <<[id |-> last.rows[1],
                     newTime |-> last.desired + SLOT_INTERVAL_MINUTES * MsPerMinute]>>

\* Scenario B: one row stored at 10:00, a more urgent super_admin submission
\* for 10:00
C11_Witness ==
    /\ ReflowWithConflicts
    /\ NewIsMostUrgent
    /\ Len(last.rows) = 1
    /\ prev[last.rows[1]].scheduledAt = last.desired
    /\ last.desired = T0

\* C12: every adjustment of a reflow moves its row to a time strictly later
\* than the time the row was stored at before
C12_AdjustmentsMoveLater ==
    (last.path = "reflow" /\ last.ok) =>
        \A i \in 1..Len(last.adjustments) :
            last.adjustments[i].newTime > prev[last.adjustments[i].id].scheduledAt

\* C13: a super_admin submission whose window holds no conflicting row gets
\* the truncated desired time, the adjustment list is empty and no existing
\* row is modified
C13_EmptyWindowNoAdjustments ==
    (last.path = "reflow" /\ ~WindowTaken(prev, FloorToMinute(last.desired))) =>
        /\ last.ok /\ last.response = "created"
        /\ last.scheduledAt = FloorToMinute(last.desired)
        /\ store[last.id].scheduledAt = FloorToMinute(last.desired)
        /\ last.adjustments = <<>>
        /\ \A id \in DOMAIN prev : store[id] = prev[id]
        /\ DOMAIN store = DOMAIN prev \cup {last.id}

\* the table already holds rows, none of them in the requested window, and
\* the desired time has seconds to drop
C13_Witness ==
    /\ last.path = "reflow"
    /\ ~WindowTaken(prev, FloorToMinute(last.desired))
    /\ Cardinality(DOMAIN prev) >= 2
    /\ last.desired # FloorToMinute(last.desired)
    /\ \E id \in DOMAIN prev : Occupies(prev, id)

\* C14: when the failAt-th adjustment write fails, the request ends in an
\* error response, the newly inserted row and the adjustments written before
\* the failing one stay in the table, and the failing adjustment and those
\* after it are not written
C14_FailedWriteLeavesPartialReflow ==
    last.failAt >= 1 =>
        /\ last.response = "error"
        /\ last.id \in DOMAIN store /\ last.id \notin DOMAIN prev
        /\ store[last.id].scheduledAt = last.scheduledAt
        /\ \A i \in 1..Len(last.adjustments) :
              LET a == last.adjustments[i]
              IN  IF i < last.failAt
                  THEN store[a.id].scheduledAt = a.newTime /\ prev[a.id].scheduledAt # a.newTime
                  ELSE store[a.id] = prev[a.id]

\* the second of two adjustment writes failed after the first went through
C14_Witness ==
    /\ last.path = "reflow"
    /\ Len(last.adjustments) = 2
    /\ last.failAt = 2
    /\ store[last.adjustments[1].id].scheduledAt = last.adjustments[1].newTime

(***************************************************************************)
(* SpecQuery: the conflict query on its own, over tables of up to MaxRows  *)
(* rows of every status and with or without a scheduled time.              *)
(***************************************************************************)
\* the values of the status column (README.md, announcements table)
AllStatuses == {"scheduled", "under_review", "active", "urgent", "expired"}

QueryRowTimes == {NoTime, T0, T0 + 2 * MsPerMinute, T0 + SlotMs}

QueryRows ==
    [scheduledAt : QueryRowTimes, status : AllStatuses,
     priorityLevel : {DefaultPriorityLevel}, authorRole : {"admin"},
     requested : {NoTime}]

QueryTables == UNION {[1..n -> QueryRows] : n \in 0..MaxRows}

\* the ranges asked: [start, start + 5 min), as both engines ask
QueryStarts == {T0, T0 + 2 * MsPerMinute}

InitQuery ==
    /\ store \in QueryTables
    /\ now = EarlyNow
    /\ prev = <<>>
    /\ last = NoRequest
    /\ procs = [p \in Procs |-> IdleProc]
    /\ view = NoView
    /\ schema = InitialSchema

\* fetchConflictsForRange runs its SELECT
ConflictQuery(start, end) ==
    /\ view' = [kind |-> "query", start |-> start, end |-> end, table |-> store,
                rows |-> fetchConflictsForRange(store, start, end)]
    /\ UNCHANGED <<store, now, prev, last, procs, schema>>

QueryNext == \E start \in QueryStarts : ConflictQuery(start, start + SlotMs)

SpecQuery == InitQuery /\ [][QueryNext]_vars

\* C15: a conflict query over [start, end) returns exactly the rows with a
\* scheduled time t, start <= t < end, and a status among scheduled,
\* under_review and active (rows without a time or with another status are
\* never returned), and the query leaves the table as it was
C15_ConflictQueryExact ==
    view.kind = "query" =>
        /\ view.rows =
              {id \in DOMAIN store :
                  /\ store[id].scheduledAt # NoTime
                  /\ store[id].status \in {"scheduled", "under_review", "active"}
                  /\ view.start <= store[id].scheduledAt
                  /\ store[id].scheduledAt < view.end}
        /\ store = view.table

\* a query that returned one row and left out an urgent row and a row without
\* a time
C15_Witness ==
    /\ view.kind = "query"
    /\ Cardinality(view.rows) = 1
    /\ \E id \in DOMAIN store \ view.rows :
          /\ store[id].status = "urgent"
          /\ view.start <= store[id].scheduledAt /\ store[id].scheduledAt < view.end
    /\ \E id \in DOMAIN store \ view.rows : store[id].scheduledAt = NoTime

(***************************************************************************)
(* The read side: isVisibleToUser (src/utils/announcementUtils.ts) and     *)
(* GET /api/announcements (route.ts).                                      *)
(***************************************************************************)
hasAdminAccess(userRole) == userRole \in {"admin", "student_admin", "super_admin"}

\* a scheduled_at that does not parse: new Date(...).getTime() is NaN
InvalidTime == 0 - 2
\* a null / undefined intake code
NoCode == 0 - 1

\* String.prototype.toLowerCase on the category values in use
ToLowerCase(s) ==
    CASE s = "Scheduled" -> "scheduled"
      [] s = "General" -> "general"
      [] OTHER -> s

\* Array.prototype.includes
Includes(seq, x) == \E i \in DOMAIN seq : seq[i] = x

\* variant: the status check is dropped
DeniedByStatus_never(announcement) == FALSE

\* lines 79-81
DeniedByStatus(announcement) == announcement.status = "scheduled"

\* variant: the category is compared as written
DeniedByCategory_caseSensitive(announcement) ==
    announcement.category # "" /\ announcement.category = "scheduled"

\* lines 83-85; category "" stands for an absent category
DeniedByCategory(announcement) ==
    announcement.category # "" /\ ToLowerCase(announcement.category) = "scheduled"

\* lines 87-92
DeniedBySchedule(announcement, clock) ==
    /\ announcement.scheduled_at # NoTime
    /\ announcement.scheduled_at # InvalidTime
    /\ announcement.scheduled_at > clock

\* lines 94-99; !studentIntakeCode holds for null, undefined and 0
DeniedByAudience(announcement, studentIntakeCode) ==
    /\ announcement.target_years.isArray
    /\ Len(announcement.target_years.years) > 0
    /\ \/ studentIntakeCode = NoCode
       \/ studentIntakeCode = 0
       \/ ~Includes(announcement.target_years.years, studentIntakeCode)

\* isVisibleToUser; clock is its new Date().  The parameters isAdmin and
\* userId (left out here) are never read.
isVisibleToUser(announcement, userRole, isAdmin, isSuperAdmin, studentIntakeCode, clock) ==
    LET hasAdminLevel == hasAdminAccess(userRole)
    IN  IF ~hasAdminLevel /\ ~isSuperAdmin
        THEN ~(\/ DeniedByStatus(announcement)
               \/ DeniedByCategory(announcement)
               \/ DeniedBySchedule(announcement, clock)
               \/ DeniedByAudience(announcement, studentIntakeCode))
        ELSE TRUE

\* target_years: not an array (null), an empty array, an array of intake codes
TargetYearsValues ==
    {[isArray |-> FALSE, years |-> <<>>],
     [isArray |-> TRUE, years |-> <<>>],
     [isArray |-> TRUE, years |-> <<23, 25>>]}

IntakeCodes == {NoCode, 0, 23, 24}

GateItems ==
    [status : {"active", "scheduled"},
     category : {"", "General", "scheduled", "Scheduled"},
     scheduled_at : {NoTime, InvalidTime, T0},
     target_years : TargetYearsValues]

GateViewers ==
    [userRole : UserRoles, isAdmin : BOOLEAN, isSuperAdmin : BOOLEAN,
     studentIntakeCode : IntakeCodes]

\* the clock: before, at and after the items' scheduled_at
GateNows == {EarlyNow, T0, LateNow}

\* one call of isVisibleToUser
Visible(announcement, viewer, clock) ==
    /\ view' = [kind |-> "gate", announcement |-> announcement, viewer |-> viewer,
                now |-> clock,
                result |-> isVisibleToUser(announcement, viewer.userRole, viewer.isAdmin,
                                           viewer.isSuperAdmin, viewer.studentIntakeCode,
                                           clock)]
    /\ UNCHANGED <<store, now, prev, last, procs, schema>>

\* the rows GET reads: fetchAllAnnouncements returns the stored announcements
ReadItems == {a \in GateItems : a.category = "General"}
ReadTables == UNION {[1..n -> ReadItems] : n \in 1..MaxData}
fetchAllAnnouncements(table) == table

\* getUserFromRequest: nobody signed in, or a user row with the intake code
\* extractIntakeCodeFromEmail reads from its email
NoUser == [present |-> FALSE, role |-> "", is_admin |-> FALSE, code |-> NoCode]
GetUsers ==
    {NoUser} \cup [present : {TRUE}, role : {"student", "user", "admin"},
                   is_admin : {FALSE}, code : IntakeCodes]

\* GET /api/announcements, lines 17-57
GET(user, table, clock) ==
    LET data == fetchAllAnnouncements(table)
        normalizedRole == normalizeUserRole(user.role, user.is_admin)
        canViewAll == hasAdminAccess(normalizedRole) \/ normalizedRole = "super_admin"
        userIntakeCode == IF user.present THEN user.code ELSE NoCode
        Keep(announcement) ==
            LET targets == announcement.target_years
            IN  IF ~targets.isArray \/ Len(targets.years) = 0 THEN TRUE
                ELSE IF userIntakeCode = NoCode \/ userIntakeCode = 0 THEN FALSE
                ELSE Includes(targets.years, userIntakeCode)
        filteredData == IF canViewAll THEN data ELSE SelectSeq(data, Keep)
    IN  /\ view' = [kind |-> "get", user |-> user, role |-> normalizedRole,
                    code |-> userIntakeCode, now |-> clock, data |-> data,
                    result |-> filteredData]
        /\ UNCHANGED <<store, now, prev, last, procs, schema>>

\* reads do not depend on one another: each behaviour makes one
ReadNext ==
    /\ view = NoView
    /\ \/ \E announcement \in GateItems, viewer \in GateViewers, clock \in GateNows :
             Visible(announcement, viewer, clock)
       \/ \E user \in GetUsers, table \in ReadTables, clock \in GateNows :
             GET(user, table, clock)

SpecRead == Init /\ [][ReadNext]_vars

\* the viewer of the last gate call is admin-level as the gate's callers see
\* it: by role, or by the isAdmin or isSuperAdmin flag
ViewerIsAdminLevel ==
    \/ view.viewer.userRole \in {"admin", "student_admin", "super_admin"}
    \/ view.viewer.isAdmin
    \/ view.viewer.isSuperAdmin

\* C16: the gate returns true for every item when the viewer is admin-level
\* (role admin, student_admin or super_admin, or the isAdmin or isSuperAdmin
\* flag set), whatever the item's status, category, scheduledAt, targetYears
C16_AdminLevelAlwaysPasses ==
    (view.kind = "gate" /\ ViewerIsAdminLevel) => view.result = TRUE

\* the item's targetYears is non-empty and the code is unknown or not in it
OutsideAudience(announcement, code) ==
    /\ announcement.target_years.isArray
    /\ announcement.target_years.years # <<>>
    /\ code = NoCode \/ \A i \in DOMAIN announcement.target_years.years :
                           announcement.target_years.years[i] # code

\* C17: for a non-admin viewer the gate returns false exactly when the item's
\* status is scheduled, or its category is "scheduled" in any letter case, or
\* its scheduledAt is set and later than now, or its targetYears is non-empty
\* and the viewer's intake code is unknown or not a member; true otherwise
C17_NonAdminDeniedExactlyWhen ==
    (view.kind = "gate" /\ ~ViewerIsAdminLevel) =>
        (view.result = FALSE <=>
            \/ view.announcement.status = "scheduled"
            \/ view.announcement.category \in {"scheduled", "Scheduled", "SCHEDULED"}
            \/ view.announcement.scheduled_at \notin {NoTime, InvalidTime}
                  /\ view.announcement.scheduled_at > view.now
            \/ OutsideAudience(view.announcement, view.viewer.studentIntakeCode))

\* Scenario D: intake code 24 against targetYears [23, 25], with an active
\* item whose scheduled time has passed
C17_Witness ==
    /\ view.kind = "gate" /\ ~ViewerIsAdminLevel
    /\ view.viewer.studentIntakeCode = 24
    /\ view.announcement.target_years.years = <<23, 25>>
    /\ view.announcement.status = "active"
    /\ view.announcement.category = "General"
    /\ view.announcement.scheduled_at = T0 /\ view.now = LateNow
    /\ view.result = FALSE

\* C18: an item whose status is scheduled is denied to every non-admin
\* viewer, also when its scheduledAt is in the past or absent, for every
\* category, targetYears and intake code
C18_ScheduledStatusDenied ==
    (/\ view.kind = "gate" /\ ~ViewerIsAdminLevel
     /\ view.announcement.status = "scheduled") => view.result = FALSE

\* a scheduled-status item whose time has passed and whose audience holds
\* the viewer is denied
C18_Witness ==
    /\ view.kind = "gate" /\ ~ViewerIsAdminLevel
    /\ view.announcement.status = "scheduled"
    /\ view.announcement.scheduled_at = T0 /\ view.now = LateNow
    /\ view.announcement.category = "General"
    /\ view.announcement.target_years.years = <<23, 25>>
    /\ view.viewer.studentIntakeCode = 23
    /\ view.result = FALSE

\* C19: every item GET returns to a non-admin viewer passes the gate: its
\* status is not scheduled, its scheduledAt is not in the future and its
\* non-empty targetYears holds the viewer's intake code
C19_GetReturnsOnlyVisible ==
    (view.kind = "get" /\ view.role = "student") =>
        \A i \in DOMAIN view.result :
            /\ view.result[i].status # "scheduled"
            /\ ~(view.result[i].scheduled_at \notin {NoTime, InvalidTime}
                    /\ view.result[i].scheduled_at > view.now)
            /\ ~OutsideAudience(view.result[i], view.code)

(***************************************************************************)
(* Presentation ordering: sortAnnouncementsByPriority                      *)
(* (src/utils/announcementUtils.ts, lines 119-155).                        *)
(***************************************************************************)
SAME_TIME_THRESHOLD == 1000

\* variant: the emergency flag is not looked at
EmergencyOrder_ignored(a, b) == 0

\* lines 121-122: negative when a goes first, positive when b does, else 0
EmergencyOrder(a, b) ==
    IF a.is_emergency /\ ~b.is_emergency THEN 0 - 1
    ELSE IF ~a.is_emergency /\ b.is_emergency THEN 1
    ELSE 0

\* lines 147-148
HasPriority(a, clock) ==
    a.priority_until # NoTime /\ a.priority_until > clock /\ a.status = "urgent"

\* variant: an absent priority_level counts as 0
PriorityNum_absentAsZero(a) == IF a.priority_level = Absent THEN 0 ELSE a.priority_level

\* lines 124-125: priority_level ?? 3
PriorityNum(a) ==
    IF a.priority_level = Absent THEN DefaultPriorityLevel ELSE a.priority_level

\* line 136: the tie-break of two items created within the threshold
SimultaneousOrder(a, b) == b.id - a.id

\* the comparator handed to sort (lines 120-154); clock is its new Date()
compareAnnouncements(a, b, clock) ==
    IF EmergencyOrder(a, b) # 0 THEN EmergencyOrder(a, b)
    ELSE
    LET aPriorityNum == PriorityNum(a)
        bPriorityNum == PriorityNum(b)
        aDate == a.created_at
        bDate == b.created_at
        timeDiff == IF aDate >= bDate THEN aDate - bDate ELSE bDate - aDate
    IN  IF timeDiff <= SAME_TIME_THRESHOLD
        THEN (IF aPriorityNum # bPriorityNum THEN aPriorityNum - bPriorityNum
              ELSE SimultaneousOrder(a, b))
        ELSE IF aPriorityNum # bPriorityNum THEN aPriorityNum - bPriorityNum
        ELSE IF HasPriority(a, clock) /\ ~HasPriority(b, clock) THEN 0 - 1
        ELSE IF ~HasPriority(a, clock) /\ HasPriority(b, clock) THEN 1
        ELSE bDate - aDate

(***************************************************************************)
(* Array.prototype.sort as V8 (Node.js, Chrome) runs it on an array of     *)
(* fewer than 64 elements: TimSort's run detection, then binary insertion  *)
(* of the remaining elements.  With a comparator that is not a consistent  *)
(* order the result depends on exactly these comparisons.                  *)
(***************************************************************************)
Reverse(seq) == [i \in 1..Len(seq) |-> seq[Len(seq) + 1 - i]]

\* the length of the run starting at element 1, whose first two elements
\* are in descending order iff descending
RECURSIVE RunEnd(_, _, _, _)
RunEnd(arr, idx, descending, clock) ==
    IF idx > Len(arr) THEN idx - 1
    ELSE LET order == compareAnnouncements(arr[idx], arr[idx - 1], clock)
         IN  IF (descending /\ order >= 0) \/ (~descending /\ order < 0)
             THEN idx - 1
             ELSE RunEnd(arr, idx + 1, descending, clock)

\* the place binary search finds for pivot in the sorted arr[left..right-1]
RECURSIVE InsertionPoint(_, _, _, _, _)
InsertionPoint(arr, pivot, left, right, clock) ==
    IF left >= right THEN left
    ELSE LET mid == left + ((right - left) \div 2)
         IN  IF compareAnnouncements(pivot, arr[mid], clock) < 0
             THEN InsertionPoint(arr, pivot, left, mid, clock)
             ELSE InsertionPoint(arr, pivot, mid + 1, right, clock)

\* elements start..Len(arr) are inserted one by one into the sorted prefix
RECURSIVE BinaryInsertionSort(_, _, _)
BinaryInsertionSort(arr, start, clock) ==
    IF start > Len(arr) THEN arr
    ELSE LET pivot == arr[start]
             left == InsertionPoint(arr, pivot, 1, start, clock)
             placed == SubSeq(arr, 1, left - 1) \o <<pivot>>
                       \o SubSeq(arr, left, start - 1)
                       \o SubSeq(arr, start + 1, Len(arr))
         IN  BinaryInsertionSort(placed, start + 1, clock)

ArraySort(arr, clock) ==
    IF Len(arr) < 2 THEN arr
    ELSE LET descending == compareAnnouncements(arr[2], arr[1], clock) < 0
             runLength == RunEnd(arr, 3, descending, clock)
             run == IF descending
                    THEN Reverse(SubSeq(arr, 1, runLength))
                         \o SubSeq(arr, runLength + 1, Len(arr))
                    ELSE arr
         IN  BinaryInsertionSort(run, runLength + 1, clock)

sortAnnouncementsByPriority(announcements, clock) == ArraySort(announcements, clock)

\* variant: the caller's array is sorted in place
ListAfterSort_inPlace(announcements, sorted) == sorted

\* line 120: [...announcements] sorts a copy, the caller's array stays as it was
ListAfterSort(announcements, sorted) == announcements

\* the lists handed to the ordering: every column the comparator reads, with
\* created_at values 0.5 s and 1.5 s apart
SortCreated == {T0, T0 + 500, T0 + 1500}
SortNow == LateNow
SortColumns ==
    [is_emergency : BOOLEAN, priority_level : {Absent, 1}, created_at : SortCreated,
     urgent : BOOLEAN]
\* pos stands for the columns the comparator never reads (title, ...)
SortItem(c, id, pos) ==
    [id |-> id, pos |-> pos, is_emergency |-> c.is_emergency, priority_level |-> c.priority_level,
     created_at |-> c.created_at,
     status |-> IF c.urgent THEN "urgent" ELSE "active",
     priority_until |-> IF c.urgent THEN SortNow + MsPerMinute ELSE NoTime]
\* ids grow along the list, fall along it, or are absent (id ?? 0)
IdOrders == {"rising", "falling", "absent"}
SortList(columns, ids) ==
    [i \in DOMAIN columns |->
        SortItem(columns[i],
                 CASE ids = "rising" -> i
                   [] ids = "falling" -> Len(columns) + 1 - i
                   [] OTHER -> 0,
                 i)]

\* one call of sortAnnouncementsByPriority; held is the caller's array after it
Sort(announcements, clock) ==
    /\ view' = [kind |-> "sort", input |-> announcements, now |-> clock,
                result |-> sortAnnouncementsByPriority(announcements, clock),
                held |-> ListAfterSort(announcements,
                                       sortAnnouncementsByPriority(announcements, clock))]
    /\ UNCHANGED <<store, now, prev, last, procs, schema>>

\* the caller orders the array it holds once more, at the same clock value
SortAgain ==
    /\ view.kind = "sort"
    /\ view' = [kind |-> "resort", input |-> view.input, now |-> view.now,
                result |-> view.result, held |-> view.held,
                again |-> sortAnnouncementsByPriority(view.held, view.now)]
    /\ UNCHANGED <<store, now, prev, last, procs, schema>>

\* each behaviour orders one list
SortNext ==
    \/ /\ view = NoView
       /\ \E n \in 0..MaxList :
             \E columns \in [1..n -> SortColumns], ids \in IdOrders :
                Sort(SortList(columns, ids), SortNow)
    \/ SortAgain

SpecSort == Init /\ [][SortNext]_vars

\* C20: in the output of the ordering every item with is_emergency true
\* precedes every item with is_emergency false, whatever the other columns
C20_EmergencyFirst ==
    view.kind = "sort" =>
        /\ Len(view.result) = Len(view.input)
        /\ {view.result[i] : i \in DOMAIN view.result}
              = {view.input[i] : i \in DOMAIN view.input}
        /\ \A i, j \in DOMAIN view.result :
              (view.result[i].is_emergency /\ ~view.result[j].is_emergency) => i < j

\* an emergency item of the lowest priority, handed in last behind two more
\* urgent, newer items, comes out first
C20_Witness ==
    /\ view.kind = "sort"
    /\ Len(view.input) = 3
    /\ ~view.input[1].is_emergency /\ view.input[1].priority_level = 1
    /\ ~view.input[2].is_emergency /\ view.input[2].status = "urgent"
    /\ view.input[3].is_emergency /\ view.input[3].priority_level = Absent
    /\ view.input[3].created_at < view.input[1].created_at
    /\ view.result[1] = view.input[3]

\* both items are in the same emergency class
SameEmergency(a, b) == a.is_emergency = b.is_emergency

\* priorityLevel with an absent one counted as 3
LevelOf(a) == IF a.priority_level = Absent THEN 3 ELSE a.priority_level

\* C21: in the output of the ordering, among items with the same
\* is_emergency value, an item with a lower priorityLevel (absent = 3)
\* precedes every item with a higher one, whatever createdAt, id and status
C21_LowerPriorityLevelFirst ==
    view.kind = "sort" =>
        \A i, j \in DOMAIN view.result :
            (/\ SameEmergency(view.result[i], view.result[j])
             /\ LevelOf(view.result[i]) < LevelOf(view.result[j])) => i < j

\* an older item of priority 1 handed in last, behind two newer items without
\* a priority_level of which one is urgent, comes out first
C21_Witness ==
    /\ view.kind = "sort"
    /\ Len(view.input) = 3
    /\ \A i \in 1..3 : ~view.input[i].is_emergency
    /\ view.input[1].priority_level = Absent /\ view.input[1].status = "urgent"
    /\ view.input[2].priority_level = Absent
    /\ view.input[3].priority_level = 1
    /\ view.input[3].created_at < view.input[1].created_at
    /\ view.input[3].id < view.input[1].id
    /\ view.result[1] = view.input[3]

\* a and b count as simultaneous: same class, same level, created at most
\* 1000 ms apart
Simultaneous(a, b) ==
    /\ SameEmergency(a, b)
    /\ LevelOf(a) = LevelOf(b)
    /\ a.created_at - b.created_at <= 1000
    /\ b.created_at - a.created_at <= 1000

\* C22: two items of the same class and priorityLevel created at most
\* 1000 ms apart come out with the higher id first, whatever their status
\* and priority expiry
C22_SimultaneousHigherIdFirst ==
    view.kind = "sort" =>
        \A i, j \in DOMAIN view.result :
            (/\ Simultaneous(view.result[i], view.result[j])
             /\ view.result[i].id > view.result[j].id) => i < j

\* the items of the last list handed to the ordering
InputItems == {view.input[i] : i \in DOMAIN view.input}

\* the comparator puts a before b
Before(a, b) == compareAnnouncements(a, b, view.now) < 0

\* C23: for a fixed current time the comparator is a total order over a
\* list of items with distinct ids: antisymmetric (cmp(a,b) and cmp(b,a)
\* have opposite signs) and transitive
C23_ComparatorTotalOrder ==
    (view.kind = "sort" /\ \A a \in InputItems : a.id # 0) =>
        /\ \A a, b \in InputItems :
              a # b => (Before(a, b) <=> ~Before(b, a))
        /\ \A a, b, c \in InputItems :
              (Before(a, b) /\ Before(b, c)) => Before(a, c)

ClampedLevel(raw) ==
    IF raw = Absent THEN 3 ELSE IF raw < 0 THEN 0 ELSE IF raw > 3 THEN 3 ELSE raw

\* C25: the priorityLevel stored with a new row, and used for it in the
\* reflow's sort, is an integer in 0..3: 3 for an absent priority_level, 0
\* for one below 0, 3 for one above 3
C25_PriorityLevelClamped ==
    (last.path # "init" /\ last.ok) =>
        /\ store[last.id].priorityLevel \in 0..3
        /\ store[last.id].priorityLevel = ClampedLevel(last.rawPriority)
        /\ \A i \in 1..Len(last.sorted) :
              last.sorted[i].id = 0 =>
                  last.sorted[i].priorityLevel = ClampedLevel(last.rawPriority)

\* a super_admin request with a priority_level below 0 went through a reflow
\* with conflicts
C25_Witness ==
    /\ ReflowWithConflicts
    /\ last.rawPriority < 0 /\ last.rawPriority # Absent
    /\ store[last.id].priorityLevel = 0
    /\ \E id \in DOMAIN prev : prev[id].priorityLevel = 3


\* the last request went through the reflow and its window had conflicts
ReflowRan == last.path = "reflow" /\ last.ok /\ Len(last.rows) >= 1

\* position of the record with the given id in the reflow's sorted list
PosInSorted(id) == CHOOSE i \in 1..Len(last.sorted) : last.sorted[i].id = id

\* two records of the sorted list agree on priorityLevel and on role rank
TiedRecords(i, j) ==
    /\ last.sorted[i].priorityLevel = last.sorted[j].priorityLevel
    /\ last.sorted[i].rolePriority = last.sorted[j].rolePriority

\* start of the k-th window counted from the requested minute
WindowStart(k) == FloorToMinute(last.desired) + (k - 1) * SLOT_INTERVAL_MINUTES * MsPerMinute

\* C26: in a reflow, tied conflicting items keep the order in which the
\* conflict query returned them, the new item stands after every conflicting
\* item it ties with, and so it is stored in a later window than they are.
C26_TiesKeepArrayOrder ==
    ReflowRan =>
        /\ \A i, j \in 1..Len(last.rows) :
              (i < j /\ TiedRecords(PosInSorted(last.rows[i]), PosInSorted(last.rows[j])))
                  => PosInSorted(last.rows[i]) < PosInSorted(last.rows[j])
        /\ \A i \in 1..Len(last.rows) :
              TiedRecords(PosInSorted(last.rows[i]), PosInSorted(0))
                  => /\ PosInSorted(last.rows[i]) < PosInSorted(0)
                     /\ last.scheduledAt > WindowStart(PosInSorted(last.rows[i]))
                     /\ last.response = "created"
                            => store[last.rows[i]].scheduledAt < store[last.id].scheduledAt

C26_Witness ==
    /\ ReflowRan
    /\ Len(last.rows) = 2
    /\ last.rows[1] > last.rows[2]
    /\ TiedRecords(1, 2) /\ TiedRecords(2, 3)
    /\ last.sorted[1].id = last.rows[1]
    /\ last.sorted[3].id = 0
    /\ last.response = "created"

\* some adjustment of the last reflow is for row id
HasAdjustment(id) ==
    \E k \in 1..Len(last.adjustments) : last.adjustments[k].id = id

\* C27: in a reflow, a conflicting item yields an adjustment exactly when the
\* window assigned to it differs from its prior stored time; it yields at most
\* one, and that one's newTime is the assigned window.
C27_AdjustmentIffWindowDiffers ==
    ReflowRan =>
        /\ \A i \in 1..Len(last.sorted) :
              last.sorted[i].id # 0 =>
                  (HasAdjustment(last.sorted[i].id)
                      <=> prev[last.sorted[i].id].scheduledAt # WindowStart(i))
        /\ \A k \in 1..Len(last.adjustments) :
              /\ last.adjustments[k].id # 0
              /\ last.adjustments[k].newTime = WindowStart(PosInSorted(last.adjustments[k].id))
              /\ \A m \in 1..Len(last.adjustments) :
                    last.adjustments[m].id = last.adjustments[k].id => m = k

C27_Witness ==
    /\ ReflowRan
    /\ \E i \in 1..Len(last.sorted) :
          /\ last.sorted[i].id # 0
          /\ prev[last.sorted[i].id].scheduledAt = WindowStart(i)
          /\ ~HasAdjustment(last.sorted[i].id)
    /\ \E i \in 1..Len(last.sorted) :
          /\ last.sorted[i].id # 0
          /\ HasAdjustment(last.sorted[i].id)

\* C28: the conflict query hands the reflow its rows in ascending id order.
C28_ConflictRowsIdAscending ==
    last.path = "reflow" =>
        \A i, j \in 1..Len(last.rows) : i < j => last.rows[i] < last.rows[j]

\* C29: Slot Finder's autoAdjusted flag is true exactly when the assigned
\* window start differs from the requested time truncated to the minute, which
\* is exactly when the first probed window held a conflict.
C29_FinderFlagIffMoved ==
    FinderAssigned =>
        /\ last.autoAdjusted <=> (last.scheduledAt # FloorToMinute(last.desired))
        /\ last.autoAdjusted <=> WindowTaken(prev, FloorToMinute(last.desired))

C29_Witness ==
    /\ FinderAssigned
    /\ last.autoAdjusted
    /\ last.desired # FloorToMinute(last.desired)
    /\ WindowTaken(prev, FloorToMinute(last.desired))
    /\ last.scheduledAt > FloorToMinute(last.desired)

\* C30: the reflow's autoAdjusted flag is true exactly when the new item did
\* not land on the requested minute or at least one adjustment was produced.
C30_ReflowFlagIffMovedOrAdjusted ==
    (last.path = "reflow" /\ last.ok) =>
        (last.autoAdjusted <=>
            (last.scheduledAt # FloorToMinute(last.desired) \/ Len(last.adjustments) > 0))

C30_Witness ==
    /\ ReflowRan
    /\ last.autoAdjusted
    /\ last.scheduledAt = FloorToMinute(last.desired)
    /\ Len(last.adjustments) > 0


\* C31: for every privileged submission the reflow's autoAdjusted flag equals
\* (final time differs from the requested time as given, before truncation,
\* or some adjustment was produced).
C31_FlagEqualsRawTimeDefinition ==
    (last.path = "reflow" /\ last.ok) =>
        (last.autoAdjusted <=>
            (last.scheduledAt # last.desired \/ Len(last.adjustments) > 0))

\* the table one complete application of the last reflow's adjustments leaves,
\* starting from the table with the new row inserted
AppliedOnce ==
    applyScheduleAdjustments(insertAnnouncement(prev, store[last.id]), last.adjustments)

\* C32: applying the adjustments is idempotent: re-applying the whole list
\* after a partial or a complete application, or writing any single
\* adjustment again, leaves the table as one complete application does.
C32_AdjustmentsIdempotent ==
    (last.path = "reflow" /\ last.ok) =>
        /\ applyScheduleAdjustments(store, last.adjustments) = AppliedOnce
        /\ applyScheduleAdjustments(AppliedOnce, last.adjustments) = AppliedOnce
        /\ \A k \in 1..Len(last.adjustments) :
              WriteAdjustment(AppliedOnce, last.adjustments[k]) = AppliedOnce

C32_Witness ==
    /\ ReflowRan
    /\ Len(last.adjustments) = 2
    /\ last.failAt = 2
    /\ store # AppliedOnce
    /\ applyScheduleAdjustments(store, last.adjustments) = AppliedOnce

\* C34: every row stored with a scheduled time has a status the conflict
\* query selects.
C34_ScheduledRowsAreQueried ==
    \A id \in DOMAIN store :
        store[id].scheduledAt # NoTime => store[id].status \in ConflictStatuses

\* C35: after a reflow with conflicts, neither the new row nor an adjusted
\* row is stored inside the window of an occupying row that was not part of
\* the reflow.
C35_ReflowAvoidsOutsideRows ==
    ReflowWithConflicts =>
        \A e \in ReflowEntries :
            \A other \in DOMAIN prev \ ReflowEntries :
                Occupies(store, other)
                    => ~InWindow(store[e].scheduledAt, store[other].scheduledAt)


\* the last request's search through Slot Finder gave up
FinderExhausted == last.path = "finder" /\ ~last.ok

\* C36: when Slot Finder gives up, the table is left as it was (no row
\* inserted, none modified), the handler never gets to the email step, and
\* the request ends with the request-validation error.
C36_ExhaustedLeavesStoreUnchanged ==
    FinderExhausted =>
        /\ store = prev
        /\ ~last.emailStep
        /\ last.thrown = "BadRequestError"
        /\ last.response = "error"

C36_Witness ==
    /\ FinderExhausted
    /\ last.probes = maxIterations
    /\ Cardinality(DOMAIN store) = maxIterations
    /\ \A id \in DOMAIN store : Occupies(store, id)


\* the insert attempts of handler p that went through
Successes(p) ==
    {k \in 1..Len(procs[p].attempts) : procs[p].attempts[k].error = NoError}

\* insertAnnouncementWithFallback of handler p has returned a record
InsertReturned(p) ==
    procs[p].attempts # <<>> /\ Len(procs[p].attempts) \in Successes(p)

\* insertAnnouncementWithFallback of handler p has thrown
InsertThrew(p) ==
    /\ procs[p].pc = "error"
    /\ procs[p].attempts # <<>>
    /\ Len(procs[p].attempts) \notin Successes(p)

\* C33: every submission terminates: the search makes at most maxIterations
\* probes, the insert at most three attempts, and every handler that has
\* received a request gets to its response (success or error).
C33_EverySubmissionResponds ==
    /\ [](\A p \in Procs : procs[p].i <= maxIterations /\ Len(procs[p].attempts) <= 3)
    /\ \A p \in Procs :
          (procs[p].pc # "idle") ~> (procs[p].pc \in {"done", "error", "failed"})

C33_Witness ==
    \E p \in Procs :
        /\ procs[p].pc = "done"
        /\ procs[p].i >= 1
        /\ Len(procs[p].attempts) = 3

\* C37: an existing row's scheduled time changes only by the write of the
\* first pending adjustment of a handler whose insert has returned; a handler
\* whose insert threw changes no row.
C37_AdjustmentsAfterInsert ==
    [][\A id \in DOMAIN store :
          store'[id].scheduledAt # store[id].scheduledAt =>
              \E p \in Procs :
                  /\ InsertReturned(p)
                  /\ procs[p].adjustments # <<>>
                  /\ Head(procs[p].adjustments).id = id
                  /\ store'[id].scheduledAt = Head(procs[p].adjustments).newTime
                  /\ procs'[p].adjustments = Tail(procs[p].adjustments)]_vars

C37_Witness ==
    \E p \in Procs :
        /\ procs[p].pc = "adjust"
        /\ InsertReturned(p)
        /\ Len(procs[p].adjustments) = 1
        /\ \E id \in DOMAIN prev : store[id].scheduledAt # prev[id].scheduledAt

\* C38: insertAnnouncementWithFallback makes at most three attempts, at most
\* one goes through and none follows it; when it returns exactly one row was
\* added, when it throws none was; an error that is neither a missing-column
\* nor an invalid-enum error ends the function at once.
C38_InsertFallbackBounded ==
    \A p \in Procs :
        LET log == procs[p].attempts
        IN  /\ Len(log) <= 3
            /\ Cardinality(Successes(p)) <= 1
            /\ \A k \in Successes(p) : k = Len(log)
            /\ InsertReturned(p) =>
                  /\ DOMAIN store = DOMAIN prev \cup {procs[p].id}
                  /\ procs[p].id \notin DOMAIN prev
            /\ InsertThrew(p) => DOMAIN store = DOMAIN prev
            /\ \A k \in 1..Len(log) :
                  (/\ log[k].error # NoError
                   /\ ~isMissingPriorityColumnError(log[k].error)
                   /\ ~isInvalidEnumError(log[k].error))
                      => k = Len(log) /\ procs[p].pc = "error"

C38_Witness ==
    \E p \in Procs :
        /\ Len(procs[p].attempts) = 3
        /\ InsertReturned(p)
        /\ procs[p].attempts[1].step = "orm"
        /\ procs[p].attempts[3].step = "manualRetry"
        /\ store[procs[p].id].status = "active"


\* C39: the capability flags are monotone under every interleaving: a flag that
\* has left 'unknown' never returns to it, 'unsupported' stays 'unsupported',
\* and once a flag is resolved no ensure call sends a statement about its
\* column again.
C39_FlagsMonotone ==
    [][\A col \in Columns :
          /\ ColumnState(schema, col) # "unknown" =>
                 /\ ColumnState(schema', col) # "unknown"
                 /\ schema'.statements[col] = schema.statements[col]
          /\ ColumnState(schema, col) = "unsupported" =>
                 ColumnState(schema', col) = "unsupported"]_vars

\* the first insert of p met the missing column and cleared the flag the
\* check had set; q then got its answer from the cache, with no new statement
C39_Witness ==
    \E p, q \in Procs :
        /\ p # q
        /\ procs[p].attempts # <<>>
        /\ procs[p].attempts[1].step = "orm"
        /\ isMissingPriorityColumnError(procs[p].attempts[1].error)
        /\ schema.priorityColumnState = "unsupported"
        /\ schema.statements["priority_until"] = 1
        /\ procs[q].pc = "insert"
        /\ ~procs[q].prioritySupported
        /\ procs[q].targetYearsSupported

=========================================================================
